---- MODULE Spec2Model ----
(***************************************************************************)
(* Heart-disease risk form (src/heart_app.py), a Streamlit script.         *)
(*                                                                         *)
(* Streamlit runs the whole script top to bottom for every event of a      *)
(* session: the first page load or a manual rerun, a change of a widget,   *)
(* and a click on the button.  One action of this model is one such run.   *)
(* The process-wide state is the st.cache_resource entry of load_model;    *)
(* the session state is the value of each widget; everything else is       *)
(* rebuilt by each run.                                                    *)
(*                                                                         *)
(* Units: a probability is an integer number of thousandths (0.40 is 400); *)
(* oldpeak is an integer number of hundredths (6.5 is 650, step 0.1 is 10).*)
(***************************************************************************)
EXTENDS Integers, Sequences, FiniteSets, TLC

VARIABLES
    widgets,      \* session: the value each widget returns (labels, not codes)
    changes,      \* number of widget changes made so far (bounded)
    cache,        \* st.cache_resource entry of load_model: <<>> or <<artifacts>>
    loadFailed,   \* history: some call of load_model has raised
    button,       \* what st.button returned in the last run
    input_data,   \* the dict built at line 159 in the last run: <<>> or <<dict>>
    calls,        \* the external calls the last run made, in order
    error,        \* the exception that ended the last run, or "none"
    display       \* what the page shows after the last run

vars == <<widgets, changes, cache, loadFailed, button, input_data, calls, error, display>>

(***************************************************************************)
(* Bounds                                                                  *)
(***************************************************************************)
MaxChanges == 2

(***************************************************************************)
(* The form: widget ranges, defaults and option lists                      *)
(***************************************************************************)
AgeMin == 20
AgeMax == 100
AgeDefault == 50
TrestbpsMin == 90
TrestbpsMax == 200
TrestbpsDefault == 120
CholMin == 100
CholMax == 600
CholDefault == 200
ThalachMin == 60
ThalachMax == 220
ThalachDefault == 150
OldpeakMin == 0
OldpeakMax == 650
OldpeakDefault == 100
OldpeakStep == 10

SexOptions == <<"Male", "Female">>
YesNoOptions == <<"No", "Yes">>
CaOptions == <<0, 1, 2, 3>>

\* the option list given to each selectbox
CpOptions ==
    <<"Typical Angina (highest risk)", "Atypical Angina", "Non-anginal Pain", "No Symptoms">>
RestecgOptions == <<"Normal", "ST-T abnormality", "Left ventricular hypertrophy">>
SlopeOptions == <<"Upsloping", "Flat", "Downsloping">>
ThalOptions == <<"Normal", "Fixed Defect", "Reversible Defect">>

\* the second literal of each list, the one .index() is called on
CpLabelsDrifted ==
    <<"Typical Angina (highest risk)", "Non-anginal Pain", "Atypical Angina", "No Symptoms">>
CpLabels ==
    <<"Typical Angina (highest risk)", "Atypical Angina", "Non-anginal Pain", "No Symptoms">>
RestecgLabels == <<"Normal", "ST-T abnormality", "Left ventricular hypertrophy">>
SlopeLabels == <<"Upsloping", "Flat", "Downsloping">>
ThalLabels == <<"Normal", "Fixed Defect", "Reversible Defect">>

Elems(s) == {s[i] : i \in 1..Len(s)}

\* the values a slider is moved to: its default and its two ends
SliderPoints(lo, hi, dflt) == {lo, dflt, hi}

\* what each widget returns before the user touches it: a slider its value
\* argument, a radio or selectbox its first option
DefaultWidgets ==
    [age |-> AgeDefault, sex |-> SexOptions[1], cp_label |-> CpOptions[1],
     trestbps |-> TrestbpsDefault, chol |-> CholDefault, fbs |-> YesNoOptions[1],
     restecg_label |-> RestecgOptions[1], thalach |-> ThalachDefault,
     exang |-> YesNoOptions[1], oldpeak |-> OldpeakDefault,
     slope_label |-> SlopeOptions[1], ca |-> CaOptions[1], thal_label |-> ThalOptions[1]]

WidgetNames == DOMAIN DefaultWidgets

\* the values the user can give to one widget
WidgetValues(name) ==
    CASE name = "age" -> SliderPoints(AgeMin, AgeMax, AgeDefault)
      [] name = "sex" -> Elems(SexOptions)
      [] name = "cp_label" -> Elems(CpOptions)
      [] name = "trestbps" -> SliderPoints(TrestbpsMin, TrestbpsMax, TrestbpsDefault)
      [] name = "chol" -> SliderPoints(CholMin, CholMax, CholDefault)
      [] name = "fbs" -> Elems(YesNoOptions)
      [] name = "restecg_label" -> Elems(RestecgOptions)
      [] name = "thalach" -> SliderPoints(ThalachMin, ThalachMax, ThalachDefault)
      [] name = "exang" -> Elems(YesNoOptions)
      [] name = "oldpeak" ->
            SliderPoints(OldpeakMin, OldpeakMax, OldpeakDefault) \cup {OldpeakMin + OldpeakStep}
      [] name = "slope_label" -> Elems(SlopeOptions)
      [] name = "ca" -> Elems(CaOptions)
      [] name = "thal_label" -> Elems(ThalOptions)

(***************************************************************************)
(* Encoding of the widget values                                           *)
(***************************************************************************)
Has(list, x) == \E i \in 1..Len(list) : list[i] = x

\* list.index(x): the 0-based position of the first element equal to x
IndexOf(list, x) ==
    (CHOOSE i \in 1..Len(list) : list[i] = x /\ \A j \in 1..(i - 1) : list[j] # x) - 1

\* list.index raises ValueError for a label that is not in the list
EncodeFails(w) ==
    \/ ~Has(CpLabels, w.cp_label)
    \/ ~Has(RestecgLabels, w.restecg_label)
    \/ ~Has(SlopeLabels, w.slope_label)
    \/ ~Has(ThalLabels, w.thal_label)

EncodeSexInverted(label) == IF label = "Male" THEN 0 ELSE 1
EncodeSex(label) == IF label = "Male" THEN 1 ELSE 0
EncodeYesNo(label) == IF label = "Yes" THEN 1 ELSE 0

EncodeThal(label) == IndexOf(ThalLabels, label) + 1

\* the script's variables after the widget section
Encoded(w) ==
    [age |-> w.age, sex |-> EncodeSex(w.sex), cp |-> IndexOf(CpLabels, w.cp_label),
     trestbps |-> w.trestbps, chol |-> w.chol, fbs |-> EncodeYesNo(w.fbs),
     restecg |-> IndexOf(RestecgLabels, w.restecg_label), thalach |-> w.thalach,
     exang |-> EncodeYesNo(w.exang), oldpeak |-> w.oldpeak,
     slope |-> IndexOf(SlopeLabels, w.slope_label), ca |-> w.ca,
     thal |-> EncodeThal(w.thal_label)]

\* the dict literal: a Python dict keeps its keys in insertion order
InputData(e) ==
    << [k |-> "age", v |-> e.age], [k |-> "sex", v |-> e.sex], [k |-> "cp", v |-> e.cp],
       [k |-> "trestbps", v |-> e.trestbps], [k |-> "chol", v |-> e.chol],
       [k |-> "fbs", v |-> e.fbs], [k |-> "restecg", v |-> e.restecg],
       [k |-> "thalach", v |-> e.thalach], [k |-> "exang", v |-> e.exang],
       [k |-> "oldpeak", v |-> e.oldpeak], [k |-> "slope", v |-> e.slope],
       [k |-> "ca", v |-> e.ca], [k |-> "thal", v |-> e.thal] >>

HasKey(d, name) == \E i \in 1..Len(d) : d[i].k = name
Get(d, name) == d[CHOOSE i \in 1..Len(d) : d[i].k = name].v

(***************************************************************************)
(* The artifacts: what the two joblib.load calls can find on disk          *)
(***************************************************************************)
FeatureNames ==
    <<"age", "sex", "cp", "trestbps", "chol", "fbs", "restecg", "thalach", "exang",
      "oldpeak", "slope", "ca", "thal">>

Reverse(s) == [i \in 1..Len(s) |-> s[Len(s) + 1 - i]]
Without(s, x) == SelectSeq(s, LAMBDA y : y # x)
Replace(s, x, y) == [i \in 1..Len(s) |-> IF s[i] = x THEN y ELSE s[i]]

\* a fitted classifier: the number of columns it was trained on, and a
\* parameter standing for its trees
Classifier(n, b) == [n_features_in |-> n, bias |-> b]

\* a fitted scaler: the number of columns it was fit on and its stored
\* per-column fit parameter
Scaler(n, m) == [n_features_in |-> n, mean |-> [i \in 1..n |-> m * i]]

\* heart_xgboost_model.pkl: {"model": ..., "features": ...}
Bundles ==
    { [model |-> Classifier(Len(FeatureNames), 0), features |-> FeatureNames],
      [model |-> Classifier(Len(FeatureNames), 1), features |-> Reverse(FeatureNames)],
      [model |-> Classifier(Len(FeatureNames), 0),
       features |-> Replace(FeatureNames, "thal", "bmi")],
      [model |-> Classifier(Len(FeatureNames) - 1, 0),
       features |-> Without(FeatureNames, "fbs")],
      [model |-> Classifier(Len(FeatureNames) - 1, 0), features |-> FeatureNames] }

\* heart_scaler.pkl
Scalers == { Scaler(Len(FeatureNames), 1), Scaler(Len(FeatureNames) - 1, 0) }

\* the tuple load_model returns
Artifacts ==
    { [model |-> b.model, features |-> b.features, scaler |-> s] :
        b \in Bundles, s \in Scalers }

\* what a call of the body of load_model yields: the tuple, or nothing when
\* joblib.load raises (a file missing or corrupt)
DiskStates == {<<>>} \cup { <<a>> : a \in Artifacts }

\* load_model() under st.cache_resource: the cached tuple when there is one,
\* otherwise the body runs and reads the disk
LoadModelUncached(c) == DiskStates
LoadModel(c) == IF c # <<>> THEN {c} ELSE DiskStates

(***************************************************************************)
(* The prediction block                                                    *)
(***************************************************************************)
threshold == 400

\* pd.DataFrame([input_data])[feature_names]: the columns named by the list,
\* in the list's order; KeyError (<<>>) when a name is no column
SelectPositional(d, names) ==
    IF \E i \in 1..Len(names) : ~HasKey(d, names[i])
    THEN <<>>
    ELSE << [i \in 1..Len(names) |-> d[i].v] >>
SelectImputing(d, names) ==
    << [i \in 1..Len(names) |-> IF HasKey(d, names[i]) THEN Get(d, names[i]) ELSE 0] >>
SelectColumns(d, names) ==
    IF \E i \in 1..Len(names) : ~HasKey(d, names[i])
    THEN <<>>
    ELSE << [i \in 1..Len(names) |-> Get(d, names[i])] >>

\* scaler.transform: rejects a row of another width, otherwise applies the
\* stored fit parameters
ScalerAccepts(scaler, X) == Len(X) = scaler.n_features_in
Transform(scaler, X) == [i \in 1..Len(X) |-> X[i] - scaler.mean[i]]

\* model.predict_proba(...)[0][1]: rejects a row of another width, otherwise
\* a fixed function of the classifier and the scaled row
ProbTable == <<0, 250, 399, 400, 401, 750, 1000>>
RECURSIVE WeightedSum(_, _)
WeightedSum(X, i) == IF i = 0 THEN 0 ELSE i * X[i] + WeightedSum(X, i - 1)
ModelAccepts(model, Xs) == Len(Xs) = model.n_features_in
PredictProba(model, Xs) ==
    ProbTable[((WeightedSum(Xs, Len(Xs)) + model.bias) % Len(ProbTable)) + 1]

IsHighRiskStrict(proba, thr) == proba > thr
IsHighRisk(proba, thr) == proba >= thr

\* lines 175-182: the calls made, the exception raised if any, and the
\* result when all three calls return
AssessTuned(d, features, scaler, model, thr) ==
    LET sel == SelectColumns(d, features) IN
    IF sel = <<>>
    THEN [error |-> "SchemaMismatch", calls |-> <<"select">>, result |-> <<>>]
    ELSE IF ~ScalerAccepts(scaler, sel[1])
    THEN [error |-> "InferenceError", calls |-> <<"select", "transform">>, result |-> <<>>]
    ELSE LET Xs == Transform(scaler, sel[1]) IN
    IF ~ModelAccepts(model, Xs)
    THEN [error |-> "InferenceError",
          calls |-> <<"select", "transform", "predict_proba">>, result |-> <<>>]
    ELSE LET proba == PredictProba(model, Xs) + (threshold - thr) IN
         [error |-> "none", calls |-> <<"select", "transform", "predict_proba">>,
          result |-> << [probability |-> proba, isHighRisk |-> IsHighRisk(proba, thr),
                         thresholdUsed |-> thr] >>]
Assess(d, features, scaler, model, thr) ==
    LET sel == SelectColumns(d, features) IN
    IF sel = <<>>
    THEN [error |-> "SchemaMismatch", calls |-> <<"select">>, result |-> <<>>]
    ELSE IF ~ScalerAccepts(scaler, sel[1])
    THEN [error |-> "InferenceError", calls |-> <<"select", "transform">>, result |-> <<>>]
    ELSE LET Xs == Transform(scaler, sel[1]) IN
    IF ~ModelAccepts(model, Xs)
    THEN [error |-> "InferenceError",
          calls |-> <<"select", "transform", "predict_proba">>, result |-> <<>>]
    ELSE LET proba == PredictProba(model, Xs) IN
         [error |-> "none", calls |-> <<"select", "transform", "predict_proba">>,
          result |-> << [probability |-> proba, isHighRisk |-> IsHighRisk(proba, thr),
                         thresholdUsed |-> thr] >>]

\* lines 184-216, reached only when no call raised: the label box, the
\* advice, the gauge and the echoed dict
RenderWithFallback(a, d) ==
    LET p == IF a.result = <<>> THEN 500 ELSE a.result[1].probability
        high == IF a.result = <<>> THEN FALSE ELSE a.result[1].isHighRisk
    IN << [labels |-> IF high THEN {"HIGH RISK"} ELSE {"LOW RISK"},
           probability |-> p, advice |-> IF high THEN "error" ELSE "success",
           gauge |-> p, entered |-> d] >>
Render(a, d) ==
    IF a.result = <<>>
    THEN <<>>
    ELSE LET r == a.result[1] IN
         << [labels |-> IF r.isHighRisk THEN {"HIGH RISK"} ELSE {"LOW RISK"},
             probability |-> r.probability,
             advice |-> IF r.isHighRisk THEN "error" ELSE "success",
             gauge |-> r.probability, entered |-> d] >>

\* line 157: the result block is built only in a run where st.button
\* returned True; the elements of the previous run are discarded
ResultKept(pressed, prev, new) == IF pressed THEN new ELSE prev
ResultShown(pressed, prev, new) == IF pressed THEN new ELSE <<>>

\* line 57: an exception of load_model ends the run there
LoadIgnored(c) == FALSE
LoadRaised(c) == c = <<>>

\* one run of the script: c is what load_model returned (<<>>: it raised),
\* w the widget values, pressed whether the button was clicked, prev the
\* result block of the previous run
RunScript(c, w, pressed, prev) ==
    IF LoadRaised(c)
    THEN [button |-> FALSE, input_data |-> <<>>, calls |-> <<>>,
          error |-> "ArtifactLoadError", display |-> [form |-> FALSE, result |-> <<>>]]
    ELSE IF EncodeFails(w)
    THEN [button |-> FALSE, input_data |-> <<>>, calls |-> <<>>,
          error |-> "ValueError", display |-> [form |-> FALSE, result |-> <<>>]]
    ELSE IF ~pressed
    THEN [button |-> pressed, input_data |-> <<>>, calls |-> <<>>, error |-> "none",
          display |-> [form |-> TRUE, result |-> ResultShown(pressed, prev, <<>>)]]
    ELSE LET d == InputData(Encoded(w))
             a == Assess(d, c[1].features, c[1].scaler, c[1].model, threshold)
         IN [button |-> TRUE, input_data |-> <<d>>, calls |-> a.calls, error |-> a.error,
             display |-> [form |-> TRUE,
                          result |-> ResultShown(TRUE, prev, Render(a, d))]]

(***************************************************************************)
(* The state machine                                                       *)
(***************************************************************************)
Init ==
    /\ widgets = DefaultWidgets
    /\ changes = 0
    /\ cache = <<>>
    /\ loadFailed = FALSE
    /\ button = FALSE
    /\ input_data = <<>>
    /\ calls = <<>>
    /\ error = "none"
    /\ display = [form |-> FALSE, result |-> <<>>]

\* the part of a run common to every event
Run(c, w, pressed) ==
    \E r \in {RunScript(c, w, pressed, display.result)} :
       /\ cache' = c
       /\ loadFailed' = (loadFailed \/ (cache = <<>> /\ c = <<>>))
       /\ button' = r.button
       /\ input_data' = r.input_data
       /\ calls' = (IF cache = <<>> THEN <<"joblib.load">> ELSE <<>>) \o r.calls
       /\ error' = r.error
       /\ display' = r.display

\* the first page load of the session, or a rerun asked for by the user
Rerun ==
    /\ \E c \in LoadModel(cache) : Run(c, widgets, FALSE)
    /\ UNCHANGED <<widgets, changes>>

\* the user moves a slider or picks another option
ChangeWidget ==
    /\ display.form
    /\ changes < MaxChanges
    /\ \E name \in WidgetNames :
         \E v \in WidgetValues(name) \ {widgets[name]} :
           /\ widgets' = [widgets EXCEPT ![name] = v]
           /\ \E c \in LoadModel(cache) : Run(c, widgets', FALSE)
    /\ changes' = changes + 1

\* the user clicks "Assess Heart Disease Risk"
PressButton ==
    /\ display.form
    /\ \E c \in LoadModel(cache) : Run(c, widgets, TRUE)
    /\ UNCHANGED <<widgets, changes>>

Next == Rerun \/ ChangeWidget \/ PressButton

Spec == Init /\ [][Next]_vars

(***************************************************************************)
(* Properties                                                              *)
(***************************************************************************)

\* C1: whenever an assessment completes, the label shown is HIGH RISK exactly
\* when the probability is at or above 0.40 (0.40 itself included) and LOW
\* RISK exactly when it is below; exactly one of the two labels is shown.
C1_LabelMatchesThreshold ==
    display.result # <<>> =>
        LET r == display.result[1] IN
        /\ Cardinality(r.labels) = 1
        /\ r.labels \subseteq {"HIGH RISK", "LOW RISK"}
        /\ ("HIGH RISK" \in r.labels) = (r.probability >= 400)
        /\ ("LOW RISK" \in r.labels) = (r.probability < 400)

C1_Witness ==
    /\ display.result # <<>>
    /\ display.result[1].probability = 400
    /\ display.result[1].labels = {"HIGH RISK"}

\* C2: encoding never fails for a label the form offers, and the code
\* submitted is the label's fixed code: chest pain 0..3 in the order Typical,
\* Atypical, Non-anginal, No Symptoms; resting ECG and ST slope the 0-based
\* position in the offered list; thalassemia Normal=1, Fixed=2, Reversible=3.
C2_EncodingTotal ==
    /\ error # "ValueError"
    /\ \A l \in Elems(CpOptions) : Has(CpLabels, l)
    /\ \A l \in Elems(RestecgOptions) : Has(RestecgLabels, l)
    /\ \A l \in Elems(SlopeOptions) : Has(SlopeLabels, l)
    /\ \A l \in Elems(ThalOptions) : Has(ThalLabels, l)
    /\ input_data # <<>> =>
        LET d == input_data[1]
            pos(list, x) == CHOOSE i \in 0..(Len(list) - 1) : list[i + 1] = x
        IN /\ Get(d, "cp") =
                (CASE widgets.cp_label = "Typical Angina (highest risk)" -> 0
                   [] widgets.cp_label = "Atypical Angina" -> 1
                   [] widgets.cp_label = "Non-anginal Pain" -> 2
                   [] widgets.cp_label = "No Symptoms" -> 3)
           /\ Get(d, "restecg") = pos(RestecgOptions, widgets.restecg_label)
           /\ Get(d, "slope") = pos(SlopeOptions, widgets.slope_label)
           /\ Get(d, "thal") =
                (CASE widgets.thal_label = "Normal" -> 1
                   [] widgets.thal_label = "Fixed Defect" -> 2
                   [] widgets.thal_label = "Reversible Defect" -> 3)

C2_Witness ==
    /\ input_data # <<>>
    /\ widgets.cp_label = "Non-anginal Pain"
    /\ widgets.thal_label = "Reversible Defect"
    /\ Get(input_data[1], "cp") = 2
    /\ Get(input_data[1], "thal") = 3

\* C3: when a name of the bundle's feature list is no key of the submitted
\* record, the run ends with SchemaMismatch, neither the scaler nor the
\* classifier has been called, and nothing is scored.
C3_MissingFeatureRaises ==
    (/\ input_data # <<>>
     /\ cache # <<>>
     /\ \E i \in 1..Len(cache[1].features) : ~HasKey(input_data[1], cache[1].features[i]))
    => /\ error = "SchemaMismatch"
       /\ "transform" \notin Elems(calls)
       /\ "predict_proba" \notin Elems(calls)
       /\ display.result = <<>>

C3_Witness ==
    /\ input_data # <<>>
    /\ cache # <<>>
    /\ ~HasKey(input_data[1], "bmi")
    /\ Has(cache[1].features, "bmi")
    /\ error = "SchemaMismatch"

\* C4: every submitted record has exactly the 13 named fields, each within
\* its declared range, with Male=1 and Female=0 and oldpeak a multiple of 0.1.
C4_RecordInRange ==
    input_data # <<>> =>
        LET d == input_data[1] IN
        /\ Len(d) = 13
        /\ {d[i].k : i \in 1..Len(d)} =
             {"age", "sex", "cp", "trestbps", "chol", "fbs", "restecg", "thalach",
              "exang", "oldpeak", "slope", "ca", "thal"}
        /\ Get(d, "age") \in 20..100
        /\ Get(d, "sex") \in {0, 1}
        /\ (Get(d, "sex") = 1) = (widgets.sex = "Male")
        /\ (Get(d, "sex") = 0) = (widgets.sex = "Female")
        /\ Get(d, "cp") \in 0..3
        /\ Get(d, "trestbps") \in 90..200
        /\ Get(d, "chol") \in 100..600
        /\ Get(d, "fbs") \in {0, 1}
        /\ Get(d, "restecg") \in 0..2
        /\ Get(d, "thalach") \in 60..220
        /\ Get(d, "exang") \in {0, 1}
        /\ Get(d, "oldpeak") \in 0..650
        /\ Get(d, "oldpeak") % 10 = 0
        /\ Get(d, "slope") \in 0..2
        /\ Get(d, "ca") \in 0..3
        /\ Get(d, "thal") \in 1..3

C4_Witness ==
    /\ input_data # <<>>
    /\ changes = MaxChanges
    /\ Get(input_data[1], "age") = 100
    /\ Get(input_data[1], "sex") = 0

\* C5: the row handed to the scaler has one column per feature name, the
\* i-th holding the record's value for the i-th name, and it is the same row
\* (and the same scaled row) for every order of the record's keys.
C5_ReorderIgnoresKeyOrder ==
    (input_data # <<>> /\ cache # <<>>) =>
        LET d == input_data[1]
            names == cache[1].features
            scaler == cache[1].scaler
            swap(i) == [j \in 1..Len(d) |->
                          IF j = i THEN d[i + 1] ELSE IF j = i + 1 THEN d[i] ELSE d[j]]
            orders == {Reverse(d)} \cup {swap(i) : i \in 1..(Len(d) - 1)}
        IN \E sel \in {SelectColumns(d, names)} :
           /\ sel # <<>> =>
                /\ Len(sel[1]) = Len(names)
                /\ \A i \in 1..Len(names) : sel[1][i] = Get(d, names[i])
           /\ \A p \in orders :
                \E selp \in {SelectColumns(p, names)} :
                   /\ selp = sel
                   /\ (sel # <<>> /\ ScalerAccepts(scaler, sel[1])) =>
                        /\ ScalerAccepts(scaler, selp[1])
                        /\ Transform(scaler, selp[1]) = Transform(scaler, sel[1])

C5_Witness ==
    /\ input_data # <<>>
    /\ cache # <<>>
    /\ cache[1].features = Reverse(FeatureNames)
    /\ display.result # <<>>

\* C6: once loaded, the artifacts never change: no later run loads them
\* again, and a run calls on them nothing but transform and predict_proba;
\* an assessment leaves the widgets' values alone as well.
C6_ArtifactsFrozen ==
    [][/\ cache # <<>> => (cache' = cache /\ "joblib.load" \notin Elems(calls'))
       /\ Elems(calls') \subseteq {"joblib.load", "select", "transform", "predict_proba"}
       /\ button' => widgets' = widgets]_vars

C6_Witness ==
    /\ cache # <<>>
    /\ display.result # <<>>
    /\ calls = <<"select", "transform", "predict_proba">>

\* C7: when the column selection, the scaler or the classifier raises, the
\* run shows no result at all (no label, probability, gauge or echo) and no
\* call has been made twice.
C7_FailureShowsNothing ==
    error \in {"SchemaMismatch", "InferenceError"} =>
        /\ display.result = <<>>
        /\ \A i, j \in 1..Len(calls) : calls[i] = calls[j] => i = j

C7_Witness ==
    /\ error = "InferenceError"
    /\ "predict_proba" \in Elems(calls)

C9_ProbabilityIgnoresThreshold ==
    (input_data # <<>> /\ cache # <<>>) =>
        LET d == input_data[1] IN
        \E a \in {Assess(d, cache[1].features, cache[1].scaler, cache[1].model, threshold)} :
        \A t \in {0, 250, 399, 400, 401, 500, 1000} :
            \E b \in {Assess(d, cache[1].features, cache[1].scaler, cache[1].model, t)} :
                /\ b.error = a.error
                /\ b.calls = a.calls
                /\ (b.result = <<>>) = (display.result = <<>>)
                /\ b.result # <<>> =>
                     /\ b.result[1].probability = display.result[1].probability
                     /\ b.result[1].isHighRisk = (display.result[1].probability >= t)

C9_Witness ==
    /\ display.result # <<>>
    /\ display.result[1].probability = 399
    /\ display.result[1].labels = {"LOW RISK"}

\* C10: a result is on the page only after a run the button triggered, and it
\* is the assessment of the widgets' current values and echoes them; after a
\* widget change (a run the button did not trigger) no result is shown.
C10_ResultOnlyForCurrentValues ==
    /\ ~button => display.result = <<>>
    /\ display.result # <<>> =>
         /\ cache # <<>>
         /\ input_data = <<InputData(Encoded(widgets))>>
         /\ display.result[1].entered = InputData(Encoded(widgets))
         /\ display.result =
              Render(Assess(InputData(Encoded(widgets)), cache[1].features,
                            cache[1].scaler, cache[1].model, threshold),
                     InputData(Encoded(widgets)))

C10_Witness ==
    /\ display.result # <<>>
    /\ changes > 0
    /\ widgets # DefaultWidgets

====
